---------------------------- MODULE Spec2Model ----------------------------
(***************************************************************************)
(* A model of helena's argparser library and of the programs around it.    *)
(*                                                                         *)
(*   - the owned array (lib/argparser/src/owned_array.c): the struct, the  *)
(*     heap block its head points to, byte by byte, and the three          *)
(*     operations owned_array_init, owned_array_append, owned_array_copy;  *)
(*   - the description registry, the default-execution dispatcher and the  *)
(*     subcommand scanner (argparser.c).                                   *)
(*                                                                         *)
(* Memory is modelled at byte granularity because the code computes byte   *)
(* sizes and byte offsets: a cell is <<b>> for a byte the program wrote    *)
(* (b in 0..255) and <<>> for a byte whose value the program never set.    *)
(* A block is a size (the bytes the allocator handed out) and the cells    *)
(* from its first byte on, including the cells that lie behind the block:  *)
(* a store behind the block is undefined behaviour, whose outcomes are a   *)
(* fault, or the bytes landing in the cells behind the block.              *)
(***************************************************************************)
EXTENDS Integers, Sequences, FiniteSets, TLC

VARIABLES
    array,        \* the OwnedArray under test: head, capacity, element_size, count
    initialized,  \* owned_array_init has run on the memory of array
    destination,  \* the caller's variable owned_array_copy writes into
    appended,     \* history: the values appended since the last owned_array_init
    crashed,      \* the process has faulted
    op,           \* the last operation, its arguments and its memory accesses
    args,         \* argv[1..argc-1], each a sequence of characters
    returned,     \* what the last call of subcommand returned
    argv0,        \* argv[0]: the address of the program's name
    descriptions, \* the static OwnedArray *descriptions of argparser.c
    registered,   \* history: the descriptions passed to describe, in order
    getopt,       \* the scanner's state in libc (optind and its companions)
    outcome,      \* what the last call of execute_default returned and printed
    concat,       \* the destination buffer of hx_strcat and the last call on it
    token,        \* the text of the token under test and what is_id returned
    assembly,     \* the locals of argparser_getopt: optstring, gnu_options
    main          \* helena's main: its position, its exit and whether it built

arrayVars == <<array, initialized, destination, appended>>

scanVars == <<args, returned>>

registryVars == <<argv0, descriptions, registered, getopt, outcome>>

programVars == <<concat, token, assembly, main>>

vars == <<array, initialized, destination, appended, crashed, op, args,
          returned, argv0, descriptions, registered, getopt, outcome,
          concat, token, assembly, main>>

-----------------------------------------------------------------------------
(* Bounds *)

\* appends per store
MaxCount == 5

-----------------------------------------------------------------------------
(* Bytes and blocks *)

\* a byte the program never wrote
Indeterminate == <<>>

\* sizeof(int) of the element type the tests store
SizeofInt == 4

ElementSizes == {1, SizeofInt}

\* values of the appended elements
Values == {2, 7}

\* values a field of a malloc'ed, not yet initialised struct may hold
GarbageInts == {0, 3}

Min(a, b) == IF a < b THEN a ELSE b

\* byte k of v, byte 1 the least significant
RECURSIVE ByteOf(_, _)
ByteOf(v, k) == IF k = 1 THEN v % 256 ELSE ByteOf(v \div 256, k - 1)

\* the n bytes of an integer in memory, least significant first
IntBytes(v, n) == [k \in 1..n |-> <<ByteOf(v, k)>>]

\* the cells of a block able to hold maxCount elements of size es, and the
\* cells behind it that the model keeps track of
Cells(es, maxCount) == 0..((maxCount + 2) * es - 1)

NullHead(es, maxCount) ==
    [null |-> TRUE, size |-> 0,
     bytes |-> [o \in Cells(es, maxCount) |-> Indeterminate]]

\* realloc(head, size): the first min(old size, size) bytes are kept. A block
\* that is extended in place keeps the cells behind it as they are; a block
\* that moves (and the first block, realloc(NULL, size)) has indeterminate
\* cells from the old size on.
realloc(head, size, moved) ==
    [null |-> FALSE, size |-> size,
     bytes |-> [o \in DOMAIN head.bytes |->
                   IF (moved \/ head.null) /\ o >= Min(head.size, size)
                   THEN Indeterminate ELSE head.bytes[o]]]

\* offset..offset+n-1 lies inside the block
InBounds(head, offset, n) == offset >= 0 /\ offset + n <= head.size

\* memmove(head + offset, data, Len(data))
Store(head, offset, data) ==
    [head EXCEPT !.bytes = [o \in DOMAIN head.bytes |->
        IF o >= offset /\ o < offset + Len(data)
        THEN data[o - offset + 1] ELSE head.bytes[o]]]

\* the n cells from head + offset on
Load(head, offset, n) == [k \in 1..n |-> head.bytes[offset + k - 1]]

-----------------------------------------------------------------------------
(* owned_array.c *)

\* a plausible slip: grows already when the new count equals the capacity
grow_on_overflow_early(a, new_count) ==
    IF new_count < a.capacity THEN a
    ELSE [a EXCEPT !.capacity = IF a.capacity = 0 THEN 4 ELSE a.capacity * 2]

grow_on_overflow(a, new_count) ==
    IF new_count <= a.capacity THEN a
    ELSE [a EXCEPT !.capacity = IF a.capacity = 0 THEN 4 ELSE a.capacity * 2]

\* owned_array_init on a non-null array
owned_array_init(element_size, maxCount) ==
    [head |-> NullHead(element_size, maxCount),
     capacity |-> 0,
     element_size |-> element_size,
     count |-> 0]

\* the byte offset owned_array_append moves the element to
append_offset(a, new_count) == new_count * a.element_size

\* the size in bytes owned_array_append asks realloc for
append_size(a, new_count) == new_count

\* owned_array_append(array, element): the array afterwards, whether the
\* process faulted, and the cells written. A memmove that leaves the block is
\* undefined: it faults (count is not yet updated), or the bytes land behind
\* the block.
owned_array_append(a, element, moved, faults) ==
    LET new_count == a.count + 1
        grown == grow_on_overflow(a, new_count)
        head == realloc(grown.head, append_size(grown, new_count), moved)
        offset == append_offset(grown, new_count)
        inside == InBounds(head, offset, grown.element_size)
    IN  IF ~inside /\ faults
        THEN [array |-> [grown EXCEPT !.head = head],
              crashed |-> TRUE,
              writes |-> {}]
        ELSE [array |-> [grown EXCEPT !.head = Store(head, offset, element),
                                      !.count = new_count],
              crashed |-> FALSE,
              writes |-> offset..(offset + grown.element_size - 1)]

\* a plausible slip: the upper limit off by one
is_out_of_range_off_by_one(a, index) ==
    a.count = 0 \/ index < 0 \/ index > a.count

is_out_of_range(a, index) ==
    a.count = 0 \/ index < 0 \/ index > a.count - 1

\* &array->head[index]: head is a void pointer, so the index counts bytes
copy_offset(a, index) == index

\* owned_array_copy(array, destination, index): the content of the destination
\* afterwards, whether the process faulted, and the cells read. dest is the
\* content of the destination before the call; dest_null says that the
\* destination pointer is null.
owned_array_copy(a, dest, dest_null, index, faults) ==
    IF is_out_of_range(a, index)
    THEN [destination |-> dest, crashed |-> FALSE, reads |-> {}]
    ELSE LET offset == copy_offset(a, index)
             inside == InBounds(a.head, offset, a.element_size)
             cells == offset..(offset + a.element_size - 1)
         IN  IF dest_null \/ (~inside /\ faults)
             THEN [destination |-> dest, crashed |-> TRUE, reads |-> {}]
             ELSE [destination |-> Load(a.head, offset, a.element_size),
                   crashed |-> FALSE,
                   reads |-> cells]

-----------------------------------------------------------------------------
(* The operations on the array under test *)

NoOp == [name |-> "none", target |-> "array", index |-> 0, element |-> 0,
         reads |-> {}, writes |-> {}]

\* the array under test before any call
FreshArray ==
    /\ array \in [head : {NullHead(1, 0)},
                  capacity : GarbageInts,
                  element_size : GarbageInts,
                  count : GarbageInts]
    /\ initialized = FALSE
    /\ destination = IntBytes(0, SizeofInt)
    /\ appended = <<>>

\* a process that uses no array of its own
NoArray ==
    /\ array = [head |-> NullHead(1, 0), capacity |-> 0, element_size |-> 0,
                count |-> 0]
    /\ initialized = FALSE
    /\ destination = <<>>
    /\ appended = <<>>

\* a process that scans no command line
NoCommandLine ==
    /\ args = <<>>
    /\ returned = [null |-> TRUE, index |-> 0]

\* getopt's state when the process starts
FreshGetopt ==
    [optind |-> 1, nextchar |-> 0, first_nonopt |-> 1, last_nonopt |-> 1]

NoOutcome == [status |-> "none", printed |-> <<>>]

\* a process that registers and dispatches nothing
NoRegistry ==
    /\ argv0 = 0
    /\ descriptions = [null |-> TRUE, store |-> owned_array_init(1, 0)]
    /\ registered = <<>>
    /\ getopt = FreshGetopt
    /\ outcome = NoOutcome

\* a process that is not the helena program and calls neither hx_strcat
\* nor is_id nor argparser_getopt on a table of its own
NoConcat == [status |-> "none"]

NoToken == [status |-> "none"]

NoAssembly == [pc |-> "none"]

NoMain == [pc |-> "none"]

NoProgram ==
    /\ concat = NoConcat
    /\ token = NoToken
    /\ assembly = NoAssembly
    /\ main = NoMain

InitArray ==
    /\ FreshArray
    /\ NoCommandLine
    /\ NoRegistry
    /\ crashed = FALSE
    /\ op = NoOp
    /\ NoProgram

\* owned_array_init(target, element_size)
OwnedArrayInit(target, element_size) ==
    /\ ~crashed
    /\ IF target = "NULL"
       THEN UNCHANGED <<array, initialized, destination, appended>>
       ELSE /\ array' = owned_array_init(element_size, MaxCount)
            /\ initialized' = TRUE
            /\ destination' = IntBytes(0, element_size)
            /\ appended' = <<>>
    /\ crashed' = FALSE
    /\ op' = [NoOp EXCEPT !.name = "init", !.target = target]
    /\ UNCHANGED <<scanVars, registryVars>>
    /\ UNCHANGED programVars

\* owned_array_append(array, element), element holding the value v
OwnedArrayAppend(v, moved, faults) ==
    /\ ~crashed
    /\ initialized
    /\ array.count < MaxCount
    /\ LET r == owned_array_append(array, IntBytes(v, array.element_size),
                                   moved, faults)
       IN  /\ array' = r.array
           /\ crashed' = r.crashed
           /\ appended' = IF r.crashed THEN appended ELSE Append(appended, v)
           /\ op' = [NoOp EXCEPT !.name = "append", !.index = array.count,
                                 !.element = v, !.writes = r.writes]
    /\ UNCHANGED <<initialized, destination>>
    /\ UNCHANGED <<scanVars, registryVars>>
    /\ UNCHANGED programVars

\* owned_array_copy(array, target, index)
OwnedArrayCopy(target, index, faults) ==
    /\ ~crashed
    /\ initialized
    /\ LET r == owned_array_copy(array, destination, target = "NULL",
                                 index, faults)
       IN  /\ destination' = r.destination
           /\ crashed' = r.crashed
           /\ op' = [NoOp EXCEPT !.name = "copy", !.target = target,
                                 !.index = index, !.reads = r.reads]
    /\ UNCHANGED <<array, initialized, appended>>
    /\ UNCHANGED <<scanVars, registryVars>>
    /\ UNCHANGED programVars

InitStep == \E target \in {"array", "NULL"}, es \in ElementSizes :
                OwnedArrayInit(target, es)

AppendStep == \E v \in Values, moved \in BOOLEAN, faults \in BOOLEAN :
                  OwnedArrayAppend(v, moved, faults)

CopyStep == \E target \in {"destination", "NULL"},
               index \in -1..(MaxCount + 1), faults \in BOOLEAN :
                OwnedArrayCopy(target, index, faults)

Init == InitArray

Next ==
    \/ InitStep
    \/ AppendStep
    \/ CopyStep

Spec == Init /\ [][Next]_vars

-----------------------------------------------------------------------------
(* Claims about the owned array *)

\* ((T *) array->head)[i], as the tests read an element
ElementAt(a, i) == Load(a.head, i * a.element_size, a.element_size)

\* the cells of the block head points to
Block(a) == 0..(a.head.size - 1)

CopyInRange == op.name = "copy" /\ op.index >= 0 /\ op.index < Len(appended)

\* C1: owned_array_copy at an index i with 0 <= i < N writes the i-th
\* appended value into the destination, whatever was appended after it.
C1_CopyYieldsIthAppended ==
    (CopyInRange /\ op.target = "destination" /\ ~crashed)
        => destination = IntBytes(appended[op.index + 1], array.element_size)

\* C2: owned_array_copy with a negative index or an index >= count leaves the
\* destination and the store unchanged and reads nothing outside the store.
C2_OutOfRangeCopyIsNoOp ==
    [][(op'.name = "copy" /\ (op'.index < 0 \/ op'.index >= array.count))
            => /\ destination' = destination
               /\ array' = array
               /\ ~crashed'
               /\ op'.reads \subseteq Block(array)]_vars

C2_Witness ==
    /\ op.name = "copy"
    /\ array.count > 0
    /\ op.index >= array.count
    /\ ~crashed

C2_WitnessNegative ==
    /\ op.name = "copy"
    /\ array.count > 0
    /\ op.index < 0

\* C3: after init and any number of appends the block holds count elements
\* (allocated bytes >= count * element_size) and append writes inside it.
C3_BlockHoldsCountElements ==
    (initialized /\ ~crashed)
        => /\ array.head.size >= array.count * array.element_size
           /\ (op.name = "append" => op.writes \subseteq Block(array))

\* C4: an append to a store of count c puts the element at element index c,
\* leaves the elements 0..c-1 as they were and makes count c + 1.
C4_AppendStoresAtCount ==
    [][(op'.name = "append" /\ ~crashed')
            => /\ ElementAt(array', array.count)
                      = IntBytes(op'.element, array.element_size)
               /\ \A i \in 0..(array.count - 1) :
                      ElementAt(array', i) = ElementAt(array, i)
               /\ array'.count = array.count + 1]_vars

\* C5: count and capacity are 0 right after owned_array_init, init on a null
\* target changes nothing, capacity changes only in an append whose count + 1
\* exceeds it, to 4 from 0 and to its double otherwise, and capacity >= count
\* after every append.
C5_GrowthPolicy ==
    /\ [][\A es \in ElementSizes :
            /\ OwnedArrayInit("array", es)
                 => array'.count = 0 /\ array'.capacity = 0
            /\ OwnedArrayInit("NULL", es)
                 => array' = array /\ initialized' = initialized]_vars
    /\ [][(initialized /\ op'.name # "init")
            => /\ array'.capacity # array.capacity
                 => /\ op'.name = "append"
                    /\ array.count + 1 > array.capacity
               /\ (op'.name = "append" /\ array.count + 1 > array.capacity)
                 => array'.capacity = IF array.capacity = 0 THEN 4
                                      ELSE 2 * array.capacity]_vars
    /\ []((initialized /\ op.name = "append")
            => array.capacity >= array.count)

C5_Witness ==
    /\ op.name = "append"
    /\ array.count = 5
    /\ array.capacity = 8
    /\ ~crashed

-----------------------------------------------------------------------------
(* argparser.c: the subcommand scanner *)

\* arguments after the program name
MaxArgs == 3

\* argv[index] == NULL
NullArg == <<"NULL">>

Build == <<"b", "u", "i", "l", "d">>

\* the arguments a command line is made of
Arguments ==
    { <<>>, <<" ">>, <<" ", " ">>, <<"-">>, <<"-", "x">>, <<" ", "-", "x">>,
      <<"-", " ">>, Build, <<" ">> \o Build, <<"b", "-">>, <<"b", " ">>,
      <<"v">>, NullArg }

CommandLines == UNION { [1..n -> Arguments] : n \in 0..MaxArgs }

\* the loop of trim_start from index on; buffer is <<>> while it is NULL
RECURSIVE trim_start_loop(_, _, _)
trim_start_loop(string, index, buffer) ==
    IF index >= Len(string) THEN buffer
    ELSE LET character == string[index + 1]
         IN  IF buffer = <<>> /\ character = " "
             THEN trim_start_loop(string, index + 1, buffer)
             ELSE trim_start_loop(string, index + 1,
                                  Append(buffer, character))

\* trim_start(string): the content of string afterwards
trim_start(string) ==
    LET buffer == trim_start_loop(string, 0, <<>>)
    IN  IF buffer = <<>> THEN string ELSE buffer

\* first_index(string, character): strchr, as an index or -1
first_index(string, character) ==
    IF \E i \in 1..Len(string) : string[i] = character
    THEN (CHOOSE i \in 1..Len(string) :
             /\ string[i] = character
             /\ \A j \in 1..(i - 1) : string[j] # character) - 1
    ELSE -1

\* a plausible slip: a dash anywhere makes an option
is_option_anywhere(argument) == first_index(argument, "-") >= 0

is_option(argument) == first_index(argument, "-") = 0

\* the loop of subcommand from index on: the index of the argument returned
\* (null when NULL is returned) and argv as the calls of trim_start leave it
RECURSIVE subcommand_loop(_, _, _, _)
subcommand_loop(argc, argv, index, last_option_index) ==
    IF index >= argc THEN [null |-> TRUE, index |-> 0, argv |-> argv]
    ELSE IF argv[index] = NullArg
    THEN subcommand_loop(argc, argv, index + 1, last_option_index)
    ELSE LET argument == trim_start(argv[index])
             trimmed == [argv EXCEPT ![index] = argument]
         IN  IF Len(argument) = 0
             THEN subcommand_loop(argc, trimmed, index + 1, last_option_index)
             ELSE IF is_option(argument)
             THEN subcommand_loop(argc, trimmed, index + 1, index)
             ELSE IF last_option_index >= 0 /\ index = last_option_index + 1
             THEN subcommand_loop(argc, trimmed, index + 1, -1)
             ELSE [null |-> FALSE, index |-> index, argv |-> trimmed]

\* subcommand(argc, argv); argv holds argv[1..argc-1]
subcommand(argc, argv) ==
    IF argc = 1 THEN [null |-> TRUE, index |-> 0, argv |-> argv]
    ELSE subcommand_loop(argc, argv, 1, -1)

InitScan ==
    /\ NoArray
    /\ NoRegistry
    /\ args \in CommandLines
    /\ returned = [null |-> TRUE, index |-> 0]
    /\ crashed = FALSE
    /\ op = NoOp
    /\ NoProgram

Subcommand ==
    /\ ~crashed
    /\ LET r == subcommand(Len(args) + 1, args)
       IN  /\ args' = r.argv
           /\ returned' = [null |-> r.null, index |-> r.index]
    /\ op' = [NoOp EXCEPT !.name = "subcommand"]
    /\ UNCHANGED crashed
    /\ UNCHANGED <<arrayVars, registryVars>>
    /\ UNCHANGED programVars

NextScan == Subcommand

SpecScan == InitScan /\ [][NextScan]_vars

-----------------------------------------------------------------------------
(* Claims about the subcommand scanner *)

\* argv[i], as the call left it, is an option
StartsWithDash(argv, i) ==
    /\ i >= 1
    /\ argv[i] # NullArg
    /\ argv[i] # <<>>
    /\ argv[i][1] = "-"

\* argv[i] is non-empty, is no option and does not follow an option
IsSubcommandAt(argv, i) ==
    /\ argv[i] # NullArg
    /\ argv[i] # <<>>
    /\ argv[i][1] # "-"
    /\ ~StartsWithDash(argv, i - 1)

\* C9: subcommand returns the first argument at index >= 1 that is non-empty,
\* does not start with '-' and does not follow an argument that starts with
\* '-', and returns NULL exactly when there is none.
C9_ReturnsFirstSubcommand ==
    op.name = "subcommand"
        => IF \E i \in 1..Len(args) : IsSubcommandAt(args, i)
           THEN /\ ~returned.null
                /\ IsSubcommandAt(args, returned.index)
                /\ \A j \in 1..(returned.index - 1) : ~IsSubcommandAt(args, j)
           ELSE returned.null

C9_Witness ==
    /\ op.name = "subcommand"
    /\ ~returned.null
    /\ returned.index = 3
    /\ StartsWithDash(args, 1)
    /\ args[2] = <<"v">>
    /\ args[3] = Build

C9_WitnessNone ==
    /\ op.name = "subcommand"
    /\ returned.null
    /\ Len(args) = 2
    /\ StartsWithDash(args, 1)
    /\ args[2] = <<"v">>

\* the string without its leading spaces
RECURSIVE WithoutLeadingSpaces(_)
WithoutLeadingSpaces(string) ==
    IF string # <<>> /\ Head(string) = " "
    THEN WithoutLeadingSpaces(Tail(string)) ELSE string

\* the indices subcommand visited
Visited(argv, r) ==
    { i \in 1..Len(argv) : (r.null \/ i <= r.index) /\ argv[i] # NullArg }

\* C10: subcommand removes the leading spaces of every argument it visits and
\* skips the arguments that are empty after that: an argument made of spaces
\* only is never returned.
C10_TrimsAndSkipsBlank ==
    [][op'.name = "subcommand"
        => /\ \A i \in Visited(args, returned') :
                 args'[i] = WithoutLeadingSpaces(args[i])
           /\ ~returned'.null
                 => WithoutLeadingSpaces(args[returned'.index]) # <<>>]_vars

-----------------------------------------------------------------------------
(* argparser.c: the description registry *)

\* calls of describe per process
MaxDescriptions == 2

\* arguments after the program name of a dispatched command line
MaxDispatchArgs == 2

\* sizeof(char *) of the LP64 targets the project builds for
SizeofPointer == 8

\* the strings of the process by address; 0 is NULL. 1 and 2 hold equal text
\* in different places, as a string literal and the argv[0] of a process do.
Text == [a \in 1..4 |->
            CASE a = 1 -> "demo"
              [] a = 2 -> "demo"
              [] a = 3 -> "other"
              [] a = 4 -> "An overview."]

\* the addresses describe is given as a name
Names == {1, 3}

\* the addresses argv[0] may be
ProgramNames == {1, 2}

\* the address of the overview
Overviews == {4}

\* the arguments of a dispatched command line
DispatchArguments ==
    { <<"-", "h">>, <<"-", "-", "h", "e", "l", "p">>, <<"-", "x">>,
      <<"-", "-">>, Build }

DispatchCommandLines ==
    UNION { [1..n -> DispatchArguments] : n \in 0..MaxDispatchArgs }

\* the bytes between an int member and the pointer member after it
Padding == [k \in 1..(SizeofPointer - SizeofInt) |-> Indeterminate]

\* description_init: the bytes of the struct Description it fills in
description_init(name, overview, option_count, options, subcommand_count, subcommands) ==
    IntBytes(name, SizeofPointer) \o IntBytes(overview, SizeofPointer)
        \o IntBytes(option_count, SizeofInt) \o Padding
        \o IntBytes(options, SizeofPointer)
        \o IntBytes(subcommand_count, SizeofInt) \o Padding
        \o IntBytes(subcommands, SizeofPointer)

\* sizeof(Description)
SizeofDescription == 4 * SizeofPointer + 2 * (SizeofInt + Len(Padding))

\* the member of n bytes at offset of a struct held in cells
Member(cells, offset, n) == [k \in 1..n |-> cells[offset + k]]

\* the member holds a value the program wrote
IsWritten(member) == \A k \in DOMAIN member : member[k] # Indeterminate

RECURSIVE BytesInt(_)
BytesInt(member) ==
    IF Len(member) = 0 THEN 0
    ELSE member[1][1] + 256 * BytesInt(Tail(member))

\* description->name and description->overview
name_of(cells) == Member(cells, 0, SizeofPointer)

overview_of(cells) == Member(cells, SizeofPointer, SizeofPointer)

\* describe(name, overview, 0, NULL, 1, subcommands): descriptions afterwards
\* and whether the process faulted
describe(descs, name, overview, moved, faults) ==
    LET description == description_init(name, overview, 0, 0, 1, 0)
        store == IF descs.null
                 THEN owned_array_init(SizeofDescription, MaxDescriptions)
                 ELSE descs.store
        r == owned_array_append(store, description, moved, faults)
    IN  [descriptions |-> [null |-> FALSE, store |-> r.array],
         crashed |-> r.crashed]

-----------------------------------------------------------------------------
(* getopt_long of the C library, for the option string "h" and the long    *)
(* option "help" without argument, permuting argv as GNU getopt does       *)

NONOPTION_P(arg) == Len(arg) < 2 \/ arg[1] # "-"

\* exchange: the options in last_nonopt..optind-1 move before the
\* non-options in first_nonopt..last_nonopt-1
exchange(g, argv) ==
    [g |-> [g EXCEPT !.first_nonopt = @ + (g.optind - g.last_nonopt),
                     !.last_nonopt = g.optind],
     argv |-> SubSeq(argv, 1, g.first_nonopt - 1)
                  \o SubSeq(argv, g.last_nonopt, g.optind - 1)
                  \o SubSeq(argv, g.first_nonopt, g.last_nonopt - 1)
                  \o SubSeq(argv, g.optind, Len(argv))]

RECURSIVE skip_nonoptions(_, _)
skip_nonoptions(argv, optind) ==
    IF optind <= Len(argv) /\ NONOPTION_P(argv[optind])
    THEN skip_nonoptions(argv, optind + 1) ELSE optind

\* the end of the scan: optind goes back to the first non-option
getopt_end(g, argv) ==
    [flag |-> "-1",
     g |-> IF g.first_nonopt # g.last_nonopt
           THEN [g EXCEPT !.optind = g.first_nonopt] ELSE g,
     argv |-> argv]

\* the next character of a group of short options
getopt_short(g, argv) ==
    LET arg == argv[g.optind]
        c == arg[g.nextchar]
    IN  [flag |-> IF c = "h" THEN "h" ELSE "?",
         g |-> IF g.nextchar = Len(arg)
               THEN [g EXCEPT !.optind = @ + 1, !.nextchar = 0]
               ELSE [g EXCEPT !.nextchar = @ + 1],
         argv |-> argv]

\* a long option: an exact name or an abbreviation of "help"
getopt_long_option(g, argv) ==
    LET name == SubSeq(argv[g.optind], 3, Len(argv[g.optind]))
        help == <<"h", "e", "l", "p">>
    IN  [flag |-> IF Len(name) <= Len(help)
                      /\ name = SubSeq(help, 1, Len(name))
                  THEN "h" ELSE "?",
         g |-> [g EXCEPT !.optind = @ + 1, !.nextchar = 0],
         argv |-> argv]

getopt_long(g0, argv0_) ==
    LET argc == Len(argv0_) + 1
    IN  IF g0.nextchar # 0 THEN getopt_short(g0, argv0_)
        ELSE
        LET g1 == [g0 EXCEPT !.last_nonopt = Min(@, g0.optind),
                             !.first_nonopt = Min(@, g0.optind)]
            p == IF g1.first_nonopt # g1.last_nonopt
                      /\ g1.last_nonopt # g1.optind
                 THEN exchange(g1, argv0_)
                 ELSE [g |-> IF g1.last_nonopt # g1.optind
                             THEN [g1 EXCEPT !.first_nonopt = g1.optind]
                             ELSE g1,
                       argv |-> argv0_]
            next == skip_nonoptions(p.argv, p.g.optind)
            g2 == [p.g EXCEPT !.optind = next, !.last_nonopt = next]
        IN  IF g2.optind # argc /\ p.argv[g2.optind] = <<"-", "-">>
            THEN LET g3 == [g2 EXCEPT !.optind = @ + 1]
                     q == IF g3.first_nonopt # g3.last_nonopt
                               /\ g3.last_nonopt # g3.optind
                          THEN exchange(g3, p.argv)
                          ELSE [g |-> IF g3.first_nonopt = g3.last_nonopt
                                      THEN [g3 EXCEPT
                                               !.first_nonopt = g3.optind]
                                      ELSE g3,
                                argv |-> p.argv]
                 IN  getopt_end([q.g EXCEPT !.last_nonopt = argc,
                                            !.optind = argc], q.argv)
            ELSE IF g2.optind = argc THEN getopt_end(g2, p.argv)
            ELSE IF p.argv[g2.optind][2] = "-"
            THEN getopt_long_option(g2, p.argv)
            ELSE getopt_short([g2 EXCEPT !.nextchar = 2], p.argv)

-----------------------------------------------------------------------------
(* argparser.c: the default-execution dispatcher *)

\* default_options[0].short_name
help_short_name == "h"

\* argparser_getopt. With one option the loop runs strcpy(optstring, ...)
\* on the null optstring, then gnu_options is freed before getopt_long reads
\* it: undefined behaviour. It faults, or the store and the reads go
\* unnoticed and the scanner works on the option string and the table the
\* loop was assembling.
argparser_getopt(g, argv, faults) ==
    IF faults THEN [flag |-> "fault", g |-> g, argv |-> argv]
    ELSE getopt_long(g, argv)

\* a_description = malloc(sizeof(Description))
FreshDescription == [k \in 1..SizeofDescription |-> Indeterminate]

\* program_name != a_description->name, on addresses. A name the program
\* never wrote compares either way (matches).
names_differ(program_name, name, matches) ==
    IF IsWritten(name) THEN program_name # BytesInt(name) ELSE ~matches

\* the loop over the descriptions from description_index on: the bytes of
\* the_description (<<>> for NULL) and whether a copy faulted
RECURSIVE find_description(_, _, _, _, _, _)
find_description(store, program_name, description_index, the_description, matches, faults) ==
    IF description_index >= store.count
    THEN [the_description |-> the_description, crashed |-> FALSE]
    ELSE LET r == owned_array_copy(store, FreshDescription, FALSE,
                                   description_index, faults)
         IN  IF r.crashed
             THEN [the_description |-> the_description, crashed |-> TRUE]
             ELSE find_description(
                      store, program_name, description_index + 1,
                      IF names_differ(program_name, name_of(r.destination),
                                      matches[description_index])
                      THEN the_description ELSE r.destination,
                      matches, faults)

\* what printf writes for a char pointer held in member; "?" for a pointer
\* that is no string of the process
printed_string(member) ==
    IF IsWritten(member) /\ BytesInt(member) \in DOMAIN Text
    THEN Text[BytesInt(member)] ELSE "?"

\* help(description): the two strings printf substitutes
help(description) ==
    <<"OVERVIEW: ", printed_string(overview_of(description)),
      "\nUSAGE: ", printed_string(name_of(description))>>

\* run_default_for_option_at_index
run_default_for_option_at_index(description, option_index) ==
    IF option_index = 0 THEN help(description) ELSE <<>>

\* what a call of execute_default leaves behind: r is the last result of
\* argparser_getopt
dispatched(status, printed, faulted, r) ==
    [status |-> status, printed |-> printed, crashed |-> faulted,
     g |-> r.g, argv |-> r.argv]

\* the body of the loop of execute_default for the help flag
execute_help(descs, program_name, r, u) ==
    IF descs.null THEN dispatched("UNDESCRIBED", <<>>, FALSE, r)
    ELSE LET f == find_description(descs.store, program_name, 0, <<>>,
                                   u.matches, u.copy)
             out == run_default_for_option_at_index(f.the_description, 0)
         IN  IF f.crashed THEN dispatched("none", <<>>, TRUE, r)
             ELSE IF f.the_description = <<>>
             THEN dispatched("UNDESCRIBED", <<>>, FALSE, r)
             ELSE IF "?" \in {out[2], out[4]} /\ u.print
             THEN dispatched("none", <<>>, TRUE, r)
             ELSE dispatched("EXECUTED", out, FALSE, r)

\* execute_default from one call of argparser_getopt on. u holds the outcomes
\* of the undefined operations: u.getopt, u.copy and u.print say which of
\* them fault, u.matches how a name that was never written compares.
RECURSIVE execute_default(_, _, _, _, _)
execute_default(descs, program_name, g, argv, u) ==
    LET r == argparser_getopt(g, argv, u.getopt)
    IN  IF r.flag = "fault" THEN dispatched("none", <<>>, TRUE, r)
        ELSE IF r.flag = "-1" THEN dispatched("NONE", <<>>, FALSE, r)
        ELSE IF r.flag # help_short_name
        THEN execute_default(descs, program_name, r.g, r.argv, u)
        ELSE execute_help(descs, program_name, r, u)

\* the outcomes of the undefined operations of one call
Undefined ==
    [getopt : BOOLEAN, copy : BOOLEAN, print : BOOLEAN,
     matches : [0..(MaxDescriptions - 1) -> BOOLEAN]]

\* the outcomes that differ for a registry of n descriptions: a fault ends
\* the call, and only the names of the descriptions read are compared
UndefinedFor(n) ==
    { u \in Undefined :
        /\ u.getopt => ~u.copy
        /\ (u.getopt \/ u.copy)
              => ~u.print /\ \A i \in DOMAIN u.matches : ~u.matches[i]
        /\ \A i \in DOMAIN u.matches : i >= n => ~u.matches[i] }

InitDispatch ==
    /\ NoArray
    /\ args \in DispatchCommandLines
    /\ returned = [null |-> TRUE, index |-> 0]
    /\ argv0 \in ProgramNames
    /\ descriptions = [null |-> TRUE, store |-> owned_array_init(1, 0)]
    /\ registered = <<>>
    /\ getopt = FreshGetopt
    /\ outcome = NoOutcome
    /\ crashed = FALSE
    /\ op = NoOp
    /\ NoProgram

\* describe(name, overview, 0, NULL, 1, subcommands)
Describe(name, overview, moved, faults) ==
    /\ ~crashed
    /\ Len(registered) < MaxDescriptions
    /\ LET r == describe(descriptions, name, overview, moved, faults)
       IN  /\ descriptions' = r.descriptions
           /\ crashed' = r.crashed
    /\ registered' = Append(registered, [name |-> name, overview |-> overview])
    /\ op' = [NoOp EXCEPT !.name = "describe"]
    /\ UNCHANGED <<argv0, getopt, outcome>>
    /\ UNCHANGED <<arrayVars, scanVars>>
    /\ UNCHANGED programVars

\* execute_default(argc, argv)
ExecuteDefault(u) ==
    /\ ~crashed
    /\ LET r == execute_default(descriptions, argv0, getopt, args, u)
       IN  /\ outcome' = [status |-> r.status, printed |-> r.printed]
           /\ crashed' = r.crashed
           /\ getopt' = r.g
           /\ args' = r.argv
    /\ op' = [NoOp EXCEPT !.name = "execute_default"]
    /\ UNCHANGED <<argv0, descriptions, registered, returned>>
    /\ UNCHANGED arrayVars
    /\ UNCHANGED programVars

DescribeStep == \E name \in Names, overview \in Overviews,
                   moved \in BOOLEAN, faults \in BOOLEAN :
                    Describe(name, overview, moved, faults)

ExecuteDefaultStep ==
    \E u \in UndefinedFor(IF descriptions.null THEN 0
                          ELSE descriptions.store.count) : ExecuteDefault(u)

NextDispatch ==
    \/ DescribeStep
    \/ ExecuteDefaultStep

SpecDispatch == InitDispatch /\ [][NextDispatch]_vars

-----------------------------------------------------------------------------
(* Claims about the dispatcher *)

HelpFlags == { <<"-", "h">>, <<"-", "-", "h", "e", "l", "p">> }

\* argv contains -h or --help
HasHelpFlag(argv) == \E i \in 1..Len(argv) : argv[i] \in HelpFlags

\* the step is the first call of execute_default in the process
FirstDispatch == op'.name = "execute_default" /\ getopt = FreshGetopt

\* the descriptions registered under the address argv[0] holds
RegisteredAsProgram ==
    { i \in 1..Len(registered) : registered[i].name = argv0 }

\* C6: before any describe call and with the help flag in argv,
\* execute_default returns UNDESCRIBED, prints nothing and leaves the
\* registry unregistered.
C6_UndescribedBeforeDescribe ==
    [][(FirstDispatch /\ registered = <<>> /\ HasHelpFlag(args))
        => /\ ~crashed'
           /\ outcome'.status = "UNDESCRIBED"
           /\ outcome'.printed = <<>>
           /\ descriptions'.null]_vars

\* C7: with a description registered under the name argv[0] and the help flag
\* in argv, execute_default returns EXECUTED and prints that description's
\* overview and the usage banner made from its name.
C7_HelpPrintsRegisteredOverview ==
    [][(FirstDispatch /\ RegisteredAsProgram # {} /\ HasHelpFlag(args))
        => /\ ~crashed'
           /\ outcome'.status = "EXECUTED"
           /\ \E i \in RegisteredAsProgram :
                 outcome'.printed = <<"OVERVIEW: ", Text[registered[i].overview],
                                      "\nUSAGE: ", Text[registered[i].name]>>]_vars

\* C8: without -h and --help in argv, execute_default returns NONE, whether
\* or not a description is registered, prints nothing and leaves the registry
\* as it is.
C8_NoneWithoutHelpFlag ==
    [][(FirstDispatch /\ ~HasHelpFlag(args))
        => /\ ~crashed'
           /\ outcome'.status = "NONE"
           /\ outcome'.printed = <<>>
           /\ descriptions' = descriptions
           /\ registered' = registered]_vars


\* descriptions->count, 0 while descriptions is NULL
DescriptionCount(descs) == IF descs.null THEN 0 ELSE descs.store.count

\* C11: the registry is append-only: a describe call adds exactly one
\* description at the end of the store (duplicates of a name included) and
\* leaves the descriptions stored before as they were, execute_default never
\* touches the store, and the store is created by the first describe call
\* only.
C11_RegistryAppendOnly ==
    [][/\ op'.name = "describe"
          => /\ ~crashed'
             /\ DescriptionCount(descriptions')
                    = DescriptionCount(descriptions) + 1
             /\ \A i \in 1..Len(registered') :
                    ElementAt(descriptions'.store, i - 1)
                        = description_init(registered'[i].name,
                                           registered'[i].overview, 0, 0, 1, 0)
       /\ op'.name = "execute_default" => descriptions' = descriptions
       /\ descriptions.null # descriptions'.null
          => op'.name = "describe" /\ registered = <<>>]_vars

-----------------------------------------------------------------------------
(* hx_string.c: hx_strcat *)

\* destination_size of the buffers
MaxSize == 4

\* characters of a source
MaxSource == 3

\* calls of hx_strcat on one buffer
MaxCalls == 2

\* the null terminator
NUL == "NUL"

\* the branch the preprocessor keeps: strlcat where libc has it (__APPLE__,
\* __OpenBSD__), strcpy elsewhere
Platforms == {"apple", "linux"}

Strategies == {"FILL", "TRUNCATE", "SEQUENTIAL"}

\* the cells behind the buffer the model keeps track of
Behind == MaxSource + 1

StringsOver(characters, n) == UNION { [1..k -> characters] : k \in 0..n }

Sources == StringsOver({"b", "c"}, MaxSource)

\* the bytes of a string with its terminator
CString(string) == [k \in 1..(Len(string) + 1) |->
                       IF k <= Len(string) THEN <<string[k]>> ELSE <<NUL>>]

\* a buffer of size bytes that holds string, the cells behind it included
Buffer(string, size) ==
    CString(string)
        \o [k \in 1..(size + Behind - Len(string) - 1) |-> Indeterminate]

RECURSIVE strlen_from(_, _)
strlen_from(cells, index) ==
    IF cells[index + 1] = <<NUL>> THEN index
    ELSE strlen_from(cells, index + 1)

strlen(cells) == strlen_from(cells, 0)

\* the bytes of data land at cells + at
Write(cells, at, data) ==
    [k \in DOMAIN cells |->
        IF k - 1 >= at /\ k - 1 < at + Len(data)
        THEN data[k - at] ELSE cells[k]]

\* strncat(destination, source, n)
strncat(dest, source, n) ==
    Write(dest, strlen(dest), CString(SubSeq(source, 1, Min(n, Len(source)))))

\* strlcat(destination, source, size) for a destination terminated inside size
strlcat(dest, source, size) ==
    Write(dest, strlen(dest),
          CString(SubSeq(source, 1, Min(size - strlen(dest) - 1, Len(source)))))

\* strcpy(&destination[at], source)
strcpy(dest, at, source) == Write(dest, at, CString(source))

\* hx_strcat: the destination afterwards, how the call ended (returned,
\* exited through exit(), faulted) and the value returned or the exit status.
\* A strcpy that leaves the buffer is undefined: it faults, or the bytes land
\* behind the buffer.
hx_strcat(dest, destination_size, source, strategy, platform, faults) ==
    LET source_length == Len(source)
        source_size == source_length + 1
        destination_length == strlen(dest)
        concatenation_index == destination_length + 1
    IN  IF source_length = 0
        THEN [destination |-> dest, status |-> "returned", result |-> 0,
              exit_status |-> "none"]
        ELSE IF strategy # "TRUNCATE"
                  /\ destination_size < destination_length + source_size
        THEN [destination |-> dest, status |-> "exited",
              result |-> 0, exit_status |-> "ENAMETOOLONG"]
        ELSE IF strategy = "SEQUENTIAL"
        THEN [destination |-> strncat(dest, source, destination_size),
              status |-> "returned", result |-> 0,
              exit_status |-> "none"]
        ELSE IF platform = "apple"
        THEN [destination |-> strlcat(dest, source, destination_size),
              status |-> "returned",
              result |-> destination_length + source_length,
              exit_status |-> "none"]
        ELSE IF concatenation_index + source_size > destination_size /\ faults
        THEN [destination |-> dest, status |-> "faulted", result |-> 0,
              exit_status |-> "none"]
        ELSE [destination |-> strcpy(dest, concatenation_index, source),
              status |-> "returned",
              result |-> destination_length + source_length + 1,
              exit_status |-> "none"]

\* a buffer holding a string, as getcwd leaves directory in build()
InitConcat ==
    /\ NoArray
    /\ NoCommandLine
    /\ NoRegistry
    /\ concat \in { [destination |-> Buffer(d, size), size |-> size,
                     platform |-> platform, calls |-> 0, source |-> <<>>,
                     strategy |-> "FILL", status |-> "none", result |-> 0,
              exit_status |-> "none"] :
                    size \in 1..MaxSize, platform \in Platforms,
                    d \in StringsOver({"a"}, MaxSize - 1) }
    /\ strlen(concat.destination) < concat.size
    /\ token = NoToken
    /\ assembly = NoAssembly
    /\ main = NoMain
    /\ crashed = FALSE
    /\ op = NoOp

\* hx_strcat(destination, destination_size, source, strategy)
HxStrcat(source, strategy, faults) ==
    /\ ~crashed
    /\ concat.status \in {"none", "returned"}
    /\ concat.calls < MaxCalls
    /\ LET r == hx_strcat(concat.destination, concat.size, source, strategy,
                          concat.platform, faults)
       IN  /\ concat' = [concat EXCEPT !.destination = r.destination,
                                       !.calls = @ + 1,
                                       !.source = source,
                                       !.strategy = strategy,
                                       !.status = r.status,
                                       !.result = r.result,
                                       !.exit_status = r.exit_status]
           /\ crashed' = (r.status = "faulted")
    /\ op' = [NoOp EXCEPT !.name = "hx_strcat"]
    /\ UNCHANGED <<token, assembly, main>>
    /\ UNCHANGED <<arrayVars, scanVars, registryVars>>

NextConcat ==
    \E source \in Sources, strategy \in Strategies, faults \in BOOLEAN :
        HxStrcat(source, strategy, faults)

SpecConcat == InitConcat /\ [][NextConcat]_vars

-----------------------------------------------------------------------------
(* Claims about hx_strcat *)

\* the step is a call of hx_strcat
ConcatCalled == op'.name = "hx_strcat"

\* the string a buffer holds
StringOf(cells) == [k \in 1..strlen(cells) |-> cells[k][1]]

\* the bytes the destination needs to hold the source too
ConcatNeed == strlen(concat.destination) + Len(concat'.source) + 1

\* the cells at and beyond destination_size
BehindBuffer(c) == SubSeq(c.destination, c.size + 1, Len(c.destination))

\* C13: with FILL or SEQUENTIAL and a non-empty source hx_strcat exits with
\* ENAMETOOLONG and leaves the destination as it was whenever destination_size
\* is less than the destination's length plus the source's length plus one;
\* with TRUNCATE the process never terminates in the call.
C13_TooLongExits ==
    [][ConcatCalled
        => /\ (/\ concat'.strategy \in {"FILL", "SEQUENTIAL"}
               /\ concat'.source # <<>>
               /\ concat.size < ConcatNeed)
              => /\ concat'.status = "exited"
                 /\ concat'.exit_status = "ENAMETOOLONG"
                 /\ concat'.destination = concat.destination
           /\ concat'.strategy = "TRUNCATE"
              => concat'.status = "returned" /\ ~crashed']_vars

\* C14: a call with FILL that returns leaves the destination completely
\* filled: its length plus the source's length plus one is destination_size
\* and the only null byte of the buffer is its last byte.
C14_FillLeavesNoUnusedBytes ==
    [][(ConcatCalled /\ concat'.strategy = "FILL"
                     /\ concat'.status = "returned")
        => /\ ConcatNeed = concat.size
           /\ \A k \in 1..concat.size :
                 /\ concat'.destination[k] # Indeterminate
                 /\ concat'.destination[k] = <<NUL>> <=> k = concat.size]_vars

\* C15: a call that returns with a source that fits leaves the previous
\* content followed by the whole source; a call with TRUNCATE and a source
\* that does not fit leaves the previous content followed by a prefix of the
\* source, terminated inside the buffer, and writes no byte at or beyond
\* destination_size.
C15_AppendsSourceOrPrefix ==
    [][(ConcatCalled /\ concat'.status = "returned")
        => /\ ConcatNeed <= concat.size
              => StringOf(concat'.destination)
                     = StringOf(concat.destination) \o concat'.source
           /\ (concat'.strategy = "TRUNCATE" /\ ConcatNeed > concat.size)
              => /\ \E n \in 0..Len(concat'.source) :
                       StringOf(concat'.destination)
                           = StringOf(concat.destination)
                                 \o SubSeq(concat'.source, 1, n)
                 /\ strlen(concat'.destination) < concat.size
                 /\ BehindBuffer(concat') = BehindBuffer(concat)]_vars

-----------------------------------------------------------------------------
(* lexer.c: is_id *)

\* characters of a token's text
MaxText == 3

Letters == {"g", "H"}

Digits == {"7"}

\* the characters of the texts: letters, a digit and a character that is
\* neither
TextCharacters == Letters \cup Digits \cup {"_"}

isalpha(character) == character \in Letters

isalnum(character) == character \in Letters \cup Digits

\* the loop of is_id from index on
RECURSIVE is_id_loop(_, _)
is_id_loop(text, index) ==
    IF index >= Len(text) THEN TRUE
    ELSE LET character == text[index + 1]
         IN  IF (index = 0 /\ isalpha(character)) \/ isalnum(character)
             THEN is_id_loop(text, index + 1)
             ELSE FALSE

is_id(text) == is_id_loop(text, 0)

\* init_token(token, 0, 0, text)
InitLexer ==
    /\ NoArray
    /\ NoCommandLine
    /\ NoRegistry
    /\ token \in { [text |-> text, status |-> "none", result |-> FALSE] :
                   text \in StringsOver(TextCharacters, MaxText) }
    /\ concat = NoConcat
    /\ assembly = NoAssembly
    /\ main = NoMain
    /\ crashed = FALSE
    /\ op = NoOp

\* is_id(token)
IsId ==
    /\ token.status = "none"
    /\ token' = [token EXCEPT !.status = "returned",
                              !.result = is_id(token.text)]
    /\ op' = [NoOp EXCEPT !.name = "is_id"]
    /\ UNCHANGED <<crashed, concat, assembly, main>>
    /\ UNCHANGED <<arrayVars, scanVars, registryVars>>

NextLexer == IsId

SpecLexer == InitLexer /\ [][NextLexer]_vars

\* C16: is_id is true exactly for the texts of at least one character whose
\* first character is a letter and whose later characters are letters or
\* digits; the empty text and a text that starts with a digit are no
\* identifiers.
C16_IdIsLetterThenAlphanumerics ==
    token.status = "returned"
        => (token.result
              <=> /\ Len(token.text) >= 1
                  /\ token.text[1] \in Letters
                  /\ \A k \in 2..Len(token.text) :
                        token.text[k] \in Letters \cup Digits)

-----------------------------------------------------------------------------
(* Further claims about the dispatcher *)

\* the first description registered under the address argv[0] holds
FirstRegisteredAsProgram ==
    CHOOSE i \in RegisteredAsProgram : \A j \in RegisteredAsProgram : i <= j

\* C17: with several descriptions registered under the name argv[0] and the
\* help flag in argv, execute_default runs help once, against the first of
\* them in registration order, however often the flag occurs.
C17_FirstMatchHelpedOnce ==
    [][(FirstDispatch /\ Cardinality(RegisteredAsProgram) >= 2
                      /\ HasHelpFlag(args))
        => /\ ~crashed'
           /\ outcome'.status = "EXECUTED"
           /\ outcome'.printed
                = <<"OVERVIEW: ",
                    Text[registered[FirstRegisteredAsProgram].overview],
                    "\nUSAGE: ",
                    Text[registered[FirstRegisteredAsProgram].name]>>]_vars

\* C19: with the help flag in argv and descriptions registered of which
\* none has the name argv[0], execute_default returns UNDESCRIBED and prints
\* nothing.
C19_UndescribedWithoutMatch ==
    [][(/\ FirstDispatch
        /\ registered # <<>>
        /\ \A i \in 1..Len(registered) :
              Text[registered[i].name] # Text[argv0]
        /\ HasHelpFlag(args))
        => /\ ~crashed'
           /\ outcome'.status = "UNDESCRIBED"
           /\ outcome'.printed = <<>>]_vars

-----------------------------------------------------------------------------
(* argparser.c: argparser_getopt, statement by statement *)

\* options of a table
MaxOptions == 3

\* the options a table is made of; the first is default_options[0]
Options ==
    { [long_name |-> "help", short_name |-> "h"],
      [long_name |-> "verbose", short_name |-> "v"],
      [long_name |-> "output", short_name |-> "o"] }

OptionTables == UNION { [1..n -> Options] : n \in 1..MaxOptions }

\* option_to_gnu(option): name, has_arg, flag, val
option_to_gnu(option) ==
    [name |-> option.long_name, has_arg |-> "no_argument", flag |-> "NULL",
     val |-> option.short_name]

\* the locals of argparser_getopt after the declarations: gnu_options is a
\* fresh block of option_count entries, optstring is NULL
assembly_start(options) ==
    [pc |-> "loop", options |-> options, index |-> 0,
     optstring |-> [null |-> TRUE, chars |-> <<>>],
     gnu_options |-> [freed |-> FALSE, entries |-> <<>>],
     null_stores |-> 0,
     passed |-> [optstring |-> [null |-> TRUE, chars |-> <<>>],
                 longopts_freed |-> FALSE, longopts |-> <<>>]]

\* one round of the loop. strcpy(optstring, ...) with optstring == NULL
\* stores through a null pointer and returns its first argument, so optstring
\* is NULL afterwards too; strcat is run once optstring is not NULL.
assemble_option(a) ==
    LET argparser_option == a.options[a.index + 1]
        entries == Append(a.gnu_options.entries,
                          option_to_gnu(argparser_option))
    IN  [a EXCEPT !.gnu_options.entries = entries,
                  !.optstring = IF a.optstring.null THEN a.optstring
                                ELSE [a.optstring EXCEPT !.chars =
                                        Append(@, argparser_option.short_name)],
                  !.null_stores = IF a.optstring.null THEN @ + 1 ELSE @,
                  !.index = @ + 1,
                  !.pc = IF a.index + 1 < Len(a.options)
                         THEN "loop" ELSE "free"]

InitGetopt ==
    /\ NoArray
    /\ NoCommandLine
    /\ NoRegistry
    /\ assembly \in { assembly_start(options) : options \in OptionTables }
    /\ concat = NoConcat
    /\ token = NoToken
    /\ main = NoMain
    /\ crashed = FALSE
    /\ op = NoOp

\* the body of the for loop; the store through the null optstring is
\* undefined: it faults or goes unnoticed
GetoptLoop(faults) ==
    /\ ~crashed
    /\ assembly.pc = "loop"
    /\ assembly' = assemble_option(assembly)
    /\ crashed' = (assembly.optstring.null /\ faults)
    /\ op' = [NoOp EXCEPT !.name = "assemble"]
    /\ UNCHANGED <<concat, token, main>>
    /\ UNCHANGED <<arrayVars, scanVars, registryVars>>

\* free(gnu_options)
GetoptFree ==
    /\ ~crashed
    /\ assembly.pc = "free"
    /\ assembly' = [assembly EXCEPT !.gnu_options.freed = TRUE,
                                    !.pc = "call"]
    /\ op' = [NoOp EXCEPT !.name = "free"]
    /\ UNCHANGED <<crashed, concat, token, main>>
    /\ UNCHANGED <<arrayVars, scanVars, registryVars>>

\* getopt_long(argc, argv, optstring, gnu_options, flag): what the scanner
\* is handed. Reading a null optstring or a freed table is undefined: it
\* faults or goes unnoticed.
GetoptCall(faults) ==
    /\ ~crashed
    /\ assembly.pc = "call"
    /\ assembly' = [assembly EXCEPT
           !.passed = [optstring |-> assembly.optstring,
                       longopts_freed |-> assembly.gnu_options.freed,
                       longopts |-> assembly.gnu_options.entries],
           !.pc = "called"]
    /\ crashed' = ((assembly.optstring.null \/ assembly.gnu_options.freed)
                      /\ faults)
    /\ op' = [NoOp EXCEPT !.name = "getopt_long"]
    /\ UNCHANGED <<concat, token, main>>
    /\ UNCHANGED <<arrayVars, scanVars, registryVars>>

GetoptLoopStep == \E faults \in BOOLEAN : GetoptLoop(faults)

GetoptCallStep == \E faults \in BOOLEAN : GetoptCall(faults)

NextGetopt ==
    \/ GetoptLoopStep
    \/ GetoptFree
    \/ GetoptCallStep

SpecGetopt == InitGetopt /\ [][NextGetopt]_vars

\* the short names of a table, in declaration order
ShortNames(options) == [k \in 1..Len(options) |-> options[k].short_name]

\* C18: for every table of at least one option the option string handed to
\* the scanner is the short names of the options in declaration order,
\* nothing was stored outside the storage allocated for it, and the table of
\* long options handed over has not been freed.
C18_OptstringAssembledInBounds ==
    /\ assembly.null_stores = 0
    /\ assembly.pc = "called"
          => /\ ~assembly.passed.optstring.null
             /\ assembly.passed.optstring.chars = ShortNames(assembly.options)
             /\ ~assembly.passed.longopts_freed

-----------------------------------------------------------------------------
(* helena.c: main *)

\* arguments after the program name of helena's command line
MaxMainArgs == 2

\* the string literal helena_describe passes as the name, its overview, and
\* argv[0] of the process: the same text as the name at another address
MainName == 1

MainOverview == 4

MainArgv0 == 2

MainArguments == DispatchArguments \cup { <<"v">> }

MainCommandLines == UNION { [1..n -> MainArguments] : n \in 0..MaxMainArgs }

\* main before its first statement
main_start == [pc |-> "start", exit_code |-> "none", built |-> FALSE,
               compared_null |-> FALSE]

\* the switch on the status execute_default returned
main_switch(m, status) ==
    CASE status = "EXECUTED" -> [m EXCEPT !.pc = "exited", !.exit_code = "0"]
      [] status = "UNDESCRIBED" ->
             [m EXCEPT !.pc = "exited", !.exit_code = "1"]
      [] OTHER -> [m EXCEPT !.pc = "dispatched"]

\* strcmp(subcommand(argc, argv), "build"): zero for equal strings. With a
\* null first argument the call is undefined: it faults, or returns either
\* way (compare).
strcmp_build(r, compare) ==
    IF r.null THEN compare
    ELSE IF r.argv[r.index] = Build THEN "equal" ELSE "differ"

InitMain ==
    /\ NoArray
    /\ args \in MainCommandLines
    /\ returned = [null |-> TRUE, index |-> 0]
    /\ argv0 = MainArgv0
    /\ descriptions = [null |-> TRUE, store |-> owned_array_init(1, 0)]
    /\ registered = <<>>
    /\ getopt = FreshGetopt
    /\ outcome = NoOutcome
    /\ concat = NoConcat
    /\ token = NoToken
    /\ assembly = NoAssembly
    /\ main = main_start
    /\ crashed = FALSE
    /\ op = NoOp

\* helena_describe()
MainDescribe(moved, faults) ==
    /\ ~crashed
    /\ main.pc = "start"
    /\ LET r == describe(descriptions, MainName, MainOverview, moved, faults)
       IN  /\ descriptions' = r.descriptions
           /\ crashed' = r.crashed
    /\ registered' = Append(registered,
                            [name |-> MainName, overview |-> MainOverview])
    /\ main' = [main EXCEPT !.pc = "described"]
    /\ op' = [NoOp EXCEPT !.name = "helena_describe"]
    /\ UNCHANGED <<argv0, getopt, outcome, concat, token, assembly>>
    /\ UNCHANGED <<arrayVars, scanVars>>

\* switch (execute_default(argc, argv))
MainExecuteDefault(u) ==
    /\ ~crashed
    /\ main.pc = "described"
    /\ \E r \in {execute_default(descriptions, argv0, getopt, args, u)} :
           /\ outcome' = [status |-> r.status, printed |-> r.printed]
           /\ crashed' = r.crashed
           /\ getopt' = r.g
           /\ args' = r.argv
           /\ main' = IF r.crashed THEN main ELSE main_switch(main, r.status)
    /\ op' = [NoOp EXCEPT !.name = "main_execute_default"]
    /\ UNCHANGED <<argv0, descriptions, registered, returned>>
    /\ UNCHANGED <<concat, token, assembly>>
    /\ UNCHANGED arrayVars

\* if (!strcmp(subcommand(argc, argv), "build")) return 0;
MainSubcommand(compare) ==
    /\ ~crashed
    /\ main.pc = "dispatched"
    /\ LET r == subcommand(Len(args) + 1, args)
           c == strcmp_build(r, compare)
       IN  /\ args' = r.argv
           /\ returned' = [null |-> r.null, index |-> r.index]
           /\ crashed' = (c = "fault")
           /\ main' = [main EXCEPT
                  !.compared_null = r.null,
                  !.pc = CASE c = "fault" -> @
                           [] c = "equal" -> "exited"
                           [] OTHER -> "build",
                  !.exit_code = IF c = "equal" THEN "0" ELSE @]
    /\ op' = [NoOp EXCEPT !.name = "main_subcommand"]
    /\ UNCHANGED <<concat, token, assembly>>
    /\ UNCHANGED <<arrayVars, registryVars>>

\* build(); return 0; fits says whether hx_strcat finds room for "/build"
\* behind the working directory in directory[MAX_PATH]
MainBuild(fits) ==
    /\ ~crashed
    /\ main.pc = "build"
    /\ main' = [main EXCEPT !.pc = "exited", !.built = TRUE,
                            !.exit_code = IF fits THEN "0"
                                          ELSE "ENAMETOOLONG"]
    /\ op' = [NoOp EXCEPT !.name = "build"]
    /\ UNCHANGED <<crashed, concat, token, assembly>>
    /\ UNCHANGED <<arrayVars, scanVars, registryVars>>

MainDescribeStep ==
    \E moved \in BOOLEAN, faults \in BOOLEAN : MainDescribe(moved, faults)

MainExecuteDefaultStep ==
    \E u \in UndefinedFor(DescriptionCount(descriptions)) :
        MainExecuteDefault(u)

MainSubcommandStep ==
    \E compare \in {"fault", "equal", "differ"} : MainSubcommand(compare)

MainBuildStep == \E fits \in BOOLEAN : MainBuild(fits)

NextMain ==
    \/ MainDescribeStep
    \/ MainExecuteDefaultStep
    \/ MainSubcommandStep
    \/ MainBuildStep

SpecMain == InitMain /\ [][NextMain]_vars

-----------------------------------------------------------------------------
(* Claims about helena's main *)

\* -h or --help is among the arguments the scanner takes as options (it does
\* not follow a "--")
StartedWithHelp(argv) ==
    \E i \in 1..Len(argv) :
        /\ argv[i] \in HelpFlags
        /\ \A j \in 1..(i - 1) : argv[j] # <<"-", "-">>

\* C12: helena started with -h or --help has registered its description when
\* it dispatches, prints the registered overview and the usage banner and
\* ends with exit code 0 without building; it never ends with exit code 1.
C12_HelpExitsZero ==
    [][(op'.name = "main_execute_default" /\ StartedWithHelp(args))
        => /\ Len(registered) = 1
           /\ ~crashed'
           /\ outcome'.status = "EXECUTED"
           /\ outcome'.printed = <<"OVERVIEW: ", Text[MainOverview],
                                   "\nUSAGE: ", Text[MainName]>>
           /\ main'.pc = "exited"
           /\ main'.exit_code = "0"
           /\ ~main'.built]_vars

\* C20: after execute_default returned NONE, main goes on to build exactly
\* when subcommand returned "build"; when subcommand returned NULL nothing is
\* compared and main ends with exit code 0 without building.
C20_BuildsOnlyOnBuild ==
    [][op'.name = "main_subcommand"
        => /\ ~crashed'
           /\ main'.pc = "build"
                <=> (~returned'.null /\ args'[returned'.index] = Build)
           /\ returned'.null
                => /\ ~main'.compared_null
                   /\ main'.pc = "exited"
                   /\ main'.exit_code = "0"]_vars

=============================================================================
